---------------------------- MODULE Spec2Model ----------------------------
(***************************************************************************)
(* Model of the telegram-parser-bot repository.                            *)
(*                                                                         *)
(*   Spec        SubscriptionTelegramBot (bot.py) over Database            *)
(*               (database.py): the conversation of one chat user, the     *)
(*               subscription and parsing_sessions tables, the Telethon    *)
(*               session bookkeeping and the passage of time.              *)
(*   SpecJob     one parse job call by call: real_parse_channel (bot.py),  *)
(*               its entity resolution and member-listing loop, or         *)
(*               TelegramBot.parse_channel_input (telegram_client.py)      *)
(*               driving EnhancedTelegramParser.parse_with_methods         *)
(*               (parser.py).                                              *)
(*   SpecDb      Database (database.py) called by one caller: the calls    *)
(*               that create users and create or extend subscriptions, one *)
(*               after another, for two user ids, from a new database file *)
(*               or from the file an earlier run left.                     *)
(*   SpecRace    Database.get_or_create_user called by two coroutines on   *)
(*               the one connection, statement by statement.               *)
(*                                                                         *)
(* Calls into the Telethon client library are the environment: each call   *)
(* returns one of the outcomes the library can produce (a value,           *)
(* FloodWaitError, another error), chosen with \E.  Bot API calls          *)
(* (reply_text, edit_text, send_document) are taken to succeed.            *)
(***************************************************************************)
EXTENDS Integers, Sequences, FiniteSets, TLC

VARIABLES
    \* ---- Spec: database.py tables and the clock
    now,                \* wall clock, in ticks
    users,              \* users table: set of rows
    subscriptions,      \* subscriptions table: sequence of rows, id = index
    parsing_sessions,   \* parsing_sessions table: the rows of the job of the step just taken
                        \* (no handler reads or writes the row of an earlier job)
    \* ---- Spec: SubscriptionTelegramBot / SessionManager
    conv,               \* ConversationHandler state of the chat user
    demo_mode,          \* 'demo_mode' in context.user_data
    export_format,      \* context.user_data['export_format'] or "unset"
    client_obj,         \* the user's latest TelethonClient object, none when neither
                        \* session_manager.clients nor user_auth_states holds it
    in_clients,         \* user_id in session_manager.clients
    session_file,       \* user_sessions/<id>.session on disk
    auth_state,         \* self.user_auth_states[user_id]: none, "client" (an entry without
                        \* phone_code_hash) or "code_sent" (an entry with all three keys)
    \* ---- Spec: what the user did and what the user was left with
    picked_format,      \* format button pressed since the parsing menu was shown
    picked_plan,        \* plan whose confirmation is on screen
    last_purchase,      \* the purchase made by the last 'confirm_purchase'
    last_job,           \* the last parse job run by parse_channel_handler
    last_op,            \* what the handler of the step just taken did, when it was an
                        \* administrator operation or a step of the sign-in
    \* ---- SpecJob: the locals of real_parse_channel and the log of its client calls
    rp,
    \* ---- SpecJob: the locals of parse_channel_input / parse_with_methods and
    \* the log of their client calls
    pp,
    \* ---- SpecDb: the Database call just made, with the tables before it
    last_call,
    \* ---- SpecRace: two get_or_create_user calls on the shared connection
    race

botVars == <<now, users, subscriptions, parsing_sessions, conv, demo_mode,
             export_format, client_obj, in_clients, session_file, auth_state,
             picked_format, picked_plan, last_purchase, last_job, last_op>>
vars == <<botVars, rp, pp, last_call, race>>

---------------------------------------------------------------------------
(* Bounds of the model *)

TicksPerDay == 2        \* clock resolution: ticks in one calendar day
MaxNow == 1             \* the clock stops here
MaxSubs == 2            \* rows in subscriptions
MaxCollected == 1       \* participants a bot-level job may collect
MaxExtendDays == 1      \* days an administrator may add on top of a lifetime subscription

Me == 1                 \* effective_user.id of the chat user
None == "none"

\* rp, pp or race in a specification that does not run that part of the program
Idle == [pc |-> "idle"]

---------------------------------------------------------------------------
(* Timestamps.  SQLite stores them as text and compares them as text.      *)
(* A text timestamp is <<date, separator, time of day>>; the separator is  *)
(* the character code of ' ' or of 'T'.                                    *)

SepSpace == 32
SepT == 84

DateOf(t) == t \div TicksPerDay
TimeOf(t) == t % TicksPerDay

\* datetime.isoformat(): 'YYYY-MM-DDTHH:MM:SS.ffffff'
isoformat(t) == <<DateOf(t), SepT, TimeOf(t)>>

\* SQLite CURRENT_TIMESTAMP: 'YYYY-MM-DD HH:MM:SS'
CURRENT_TIMESTAMP(t) == <<DateOf(t), SepSpace, TimeOf(t)>>

\* datetime.fromisoformat() accepts both separators
fromisoformat(s) == s[1] * TicksPerDay + s[3]

\* text comparison a > b, character by character
TextGreater(a, b) ==
    \/ a[1] > b[1]
    \/ a[1] = b[1] /\ a[2] > b[2]
    \/ a[1] = b[1] /\ a[2] = b[2] /\ a[3] > b[3]

\* timedelta(days = d)
timedelta(d) == d * TicksPerDay

\* (a - b).days
DaysBetween(a, b) == (a - b) \div TicksPerDay

---------------------------------------------------------------------------
(* database.py *)

get_subscription_plans ==
    << [code |-> "trial",   days |-> 3,   price |-> 0],
       [code |-> "daily",   days |-> 1,   price |-> 50],
       [code |-> "weekly",  days |-> 7,   price |-> 250],
       [code |-> "monthly", days |-> 30,  price |-> 800],
       [code |-> "yearly",  days |-> 365, price |-> 5000] >>

PlanCodes == {get_subscription_plans[i].code : i \in DOMAIN get_subscription_plans}

\* next((p for p in plans if p['code'] == plan_type), None): the index of the
\* plan in get_subscription_plans, 0 for None
FindPlan(plan_type) ==
    LET hits == {i \in DOMAIN get_subscription_plans :
                    get_subscription_plans[i].code = plan_type}
    IN  IF hits = {} THEN 0
        ELSE CHOOSE i \in hits : \A j \in hits : i <= j

get_user(us, user_id) == {u \in us : u.user_id = user_id}

\* every caller taken for an administrator
is_admin_anyone(us, user_id) == TRUE

\* SELECT is_admin FROM users WHERE user_id = ?
is_admin(us, user_id) == \E u \in us : u.user_id = user_id /\ u.is_admin

SubRow(id, user_id, plan_type, starts_at, expires_at, price) ==
    [id |-> id, user_id |-> user_id, plan_type |-> plan_type, status |-> "active",
     starts_at |-> starts_at, expires_at |-> expires_at, price |-> price]

\* SELECT ... WHERE user_id = ? AND status = 'active' AND expires_at > CURRENT_TIMESTAMP
\* ORDER BY expires_at DESC LIMIT 1.  The set of rows the query may return
\* (rows with equal expires_at are in no defined order); {} is None.
get_user_subscription(subs, t, user_id) ==
    LET cand == {i \in DOMAIN subs :
                    /\ subs[i].user_id = user_id
                    /\ subs[i].status = "active"
                    /\ TextGreater(subs[i].expires_at, CURRENT_TIMESTAMP(t))}
    IN  {subs[i] : i \in {i \in cand :
            \A j \in cand : ~TextGreater(subs[j].expires_at, subs[i].expires_at)}}

\* the expiry counted from the start of the day of the call
create_subscription_from_midnight(subs, t, user_id, plan_type, days, price) ==
    Append(subs, SubRow(Len(subs) + 1, user_id, plan_type, isoformat(t),
                        isoformat(DateOf(t) * TicksPerDay + timedelta(days)), price))

\* starts_at = datetime.now(); expires_at = starts_at + timedelta(days = days);
\* INSERT ... (user_id, plan_type, starts_at.isoformat(), expires_at.isoformat(), price)
create_subscription(subs, t, user_id, plan_type, days, price) ==
    Append(subs, SubRow(Len(subs) + 1, user_id, plan_type,
                        isoformat(t), isoformat(t + timedelta(days)), price))

\* the INSERTs made without looking for the user first
get_or_create_user_unchecked(us, subs, t, user_id) ==
    << us \cup {[user_id |-> user_id, is_admin |-> FALSE]},
       Append(subs, SubRow(Len(subs) + 1, user_id, "trial",
                           CURRENT_TIMESTAMP(t), isoformat(t + timedelta(3)), 0)) >>

\* INSERT INTO users ...; INSERT INTO subscriptions (... 'trial' ..., now + 3 days)
\* starts_at is the column default, CURRENT_TIMESTAMP.  The pair <<users, subscriptions>>.
get_or_create_user(us, subs, t, user_id) ==
    IF get_user(us, user_id) # {} THEN <<us, subs>>
    ELSE << us \cup {[user_id |-> user_id, is_admin |-> FALSE]},
            Append(subs, SubRow(Len(subs) + 1, user_id, "trial",
                                CURRENT_TIMESTAMP(t), isoformat(t + timedelta(3)), 0)) >>

create_user(us, subs, t, user_id) == get_or_create_user(us, subs, t, user_id)

\* Database.connect() -> _ensure_admin_exists for the ids of ADMIN_IDS.
\* The pair <<users, subscriptions>>.
ensure_admin_exists(us, subs, admin_ids, t) ==
    IF Me \in admin_ids /\ get_user(us, Me) = {}
    THEN << us \cup {[user_id |-> Me, is_admin |-> TRUE]},
            Append(subs, SubRow(Len(subs) + 1, Me, "lifetime", CURRENT_TIMESTAMP(t),
                                isoformat(t + timedelta(3650)), 0)) >>
    ELSE <<us, subs>>

\* SELECT ... WHERE user_id = ? AND status = 'active' ORDER BY expires_at DESC LIMIT 1,
\* then UPDATE its expires_at, or create_subscription(user, 'admin', days)
update_user_subscription(subs, t, user_id, days_to_add) ==
    LET cand == {i \in DOMAIN subs : subs[i].user_id = user_id /\ subs[i].status = "active"}
        top  == {i \in cand : \A j \in cand :
                    ~TextGreater(subs[j].expires_at, subs[i].expires_at)}
    IN  IF cand = {}
        THEN {create_subscription(subs, t, user_id, "admin", days_to_add, 0)}
        ELSE {[subs EXCEPT ![i].expires_at =
                    isoformat(fromisoformat(subs[i].expires_at) + timedelta(days_to_add))]
              : i \in top}

SessionRow(user_id) ==
    [user_id |-> user_id, status |-> "pending", parsed_items |-> 0,
     result_file_path |-> None, error_message |-> None, completed_at |-> FALSE]

create_parsing_session(ps, user_id) == Append(ps, SessionRow(user_id))

\* update_parsing_session(session_uid, **kwargs): kw is the record of keyword
\* arguments (no caller passes None); total_items is shown only and is not a column here
update_parsing_session(row, kw) ==
    LET allowed == {"status", "total_items", "parsed_items",
                    "result_file_path", "error_message"}
    IN  [f \in DOMAIN row |->
            IF f \in DOMAIN kw /\ f \in allowed THEN kw[f]
            ELSE IF f = "completed_at" /\ "status" \in DOMAIN kw /\ kw.status = "completed"
                 THEN TRUE
                 ELSE row[f]]

---------------------------------------------------------------------------
(* bot.py: helpers *)

\* check_subscription(user_id): <<result, users, subscriptions>>
check_subscription(us, subs, t, user_id) ==
    LET s0  == get_user_subscription(subs, t, user_id)
        db1 == IF s0 = {} /\ get_user(us, user_id) = {}
               THEN create_user(us, subs, t, user_id)
               ELSE <<us, subs>>
        s1  == get_user_subscription(db1[2], t, user_id)
    IN  IF s1 = {}
        THEN <<[has_access |-> FALSE, subscription |-> None], db1[1], db1[2]>>
        ELSE LET sub == CHOOSE s \in s1 : TRUE
                 days_left == DaysBetween(fromisoformat(sub.expires_at), t)
             IN  <<[has_access |-> days_left >= 0, subscription |-> sub],
                   db1[1], db1[2]>>

\* export_to_file(data, format_type) for non-empty data: is temp/export_*.<format> written
export_to_file(format_type) == format_type \in {"txt", "csv", "xlsx"}

\* SessionManager.is_authorized
is_authorized(obj, inc, file) ==
    IF inc THEN obj = "authorized"
    ELSE IF file # None THEN file = "authorized"
    ELSE FALSE

---------------------------------------------------------------------------
(* bot.py: updates and their dispatch (create_and_start_app)               *)
(* Callback data and message texts are sequences of tokens, so that        *)
(* startswith(), replace() and the handlers' regular expressions are       *)
(* computed on them.                                                       *)

States == {"START", "AUTH_PHONE", "AUTH_CODE", "AUTH_PASSWORD", "MAIN_MENU",
           "PARSE_CHANNEL", "CHOOSE_PLAN", "CONFIRM_PAYMENT"}

PlainButtons == {"main_menu", "start_auth", "setup_api", "buy_subscription",
                 "start_parsing", "demo_parsing", "confirm_purchase", "cancel_purchase",
                 "help", "my_subscription", "stats", "logout", "manage_session",
                 "delete_my_session", "refresh_stats", "manage_sessions"}

\* every callback_data some keyboard of bot.py carries
CallbackData ==
    {<<b>> : b \in PlainButtons}
    \cup {<<"plan_", c>> : c \in PlanCodes}
    \cup {<<"format_", f>> : f \in {"txt", "csv", "excel"}}
    \cup {<<"admin_", x>> : x \in {"panel", "users", "subscriptions", "stats",
                                   "manage", "back", "cancel"}}
    \cup {<<"admin_", "user_", "1">>}
    \cup {<<"admin_", "confirm_broadcast_", "1">>}
    \cup {<<"admin_", "extend_", "1", "_", d>> : d \in {"1", "7", "30"}}
    \cup {<<"session_action_", "1", "_", a>> : a \in {"view", "delete"}}

Commands == {"start", "buy", "logout", "cancel", "admin", "broadcast"}

\* message texts: a phone number, a login code, a channel handle
Texts == {<<"+", "79991234567">>, <<"12345">>, <<"telegram">>}

int(tok) == CASE tok = "1" -> 1 [] tok = "7" -> 7 [] tok = "30" -> 30

Range(f) == {f[i] : i \in DOMAIN f}

startswith(d, prefix) == Len(d) >= 1 /\ d[1] = prefix

\* pattern '^(start_auth|buy_subscription|setup_api|help|main_menu|logout|manage_session)$'
StartPattern(d) ==
    Len(d) = 1 /\ d[1] \in {"start_auth", "buy_subscription", "setup_api", "help",
                            "main_menu", "logout", "manage_session"}

\* handlers of a conversation state, in registration order: the first that matches
StateHandler(state, kind, d) ==
    CASE state = "START" ->
            IF kind = "cb" /\ StartPattern(d) THEN "callback_handler" ELSE None
      [] state = "AUTH_PHONE" ->
            IF kind = "text" THEN "auth_phone_handler"
            ELSE IF kind = "cb" /\ d = <<"main_menu">> THEN "callback_handler" ELSE None
      [] state = "AUTH_CODE" ->
            IF kind = "text" THEN "auth_code_handler"
            ELSE IF kind = "cb" /\ d = <<"main_menu">> THEN "callback_handler" ELSE None
      [] state = "AUTH_PASSWORD" ->
            IF kind = "text" THEN "auth_password_handler"
            ELSE IF kind = "cb" /\ d = <<"main_menu">> THEN "callback_handler" ELSE None
      [] state = "MAIN_MENU" ->
            IF kind = "cb" THEN "callback_handler"
            ELSE IF kind = "cmd" /\ d = <<"buy">> THEN "buy_command"
            ELSE IF kind = "cmd" /\ d = <<"logout">> THEN "logout_command"
            ELSE None
      [] state = "PARSE_CHANNEL" ->
            IF kind = "text" THEN "parse_channel_handler"
            ELSE IF kind = "cb" /\ d = <<"main_menu">> THEN "callback_handler" ELSE None
      [] state \in {"CHOOSE_PLAN", "CONFIRM_PAYMENT"} ->
            IF kind = "cb" THEN "callback_handler" ELSE None
      [] OTHER -> None

\* handlers added to the application after the conversation (same group)
AppHandler(kind, d) ==
    IF kind = "cmd" /\ d = <<"buy">> THEN "buy_command"
    ELSE IF kind = "cmd" /\ d = <<"logout">> THEN "logout_command"
    ELSE IF kind = "cmd" /\ d = <<"admin">> THEN "admin_command"
    ELSE IF kind = "cmd" /\ d = <<"broadcast">> THEN "admin_broadcast_command"
    ELSE IF kind = "cb" /\ startswith(d, "admin_") THEN "admin_callback_handler"
    ELSE IF kind = "cb" /\ startswith(d, "session_action_") THEN "callback_handler"
    ELSE None

\* <<handler, does its return value set the conversation state>>
Route(state, kind, d) ==
    IF kind = "cmd" /\ d = <<"start">> THEN <<"start_command", TRUE>>   \* entry point, allow_reentry
    ELSE IF state = None THEN <<AppHandler(kind, d), FALSE>>
    ELSE IF StateHandler(state, kind, d) # None THEN <<StateHandler(state, kind, d), TRUE>>
    ELSE IF kind = "cmd" /\ d = <<"cancel">> THEN <<"cancel_command", TRUE>>  \* fallback
    ELSE <<AppHandler(kind, d), FALSE>>

\* the conversation state after a handler returned ret (None: no return value)
NextConv(state, route, ret) == IF route[2] /\ ret # None THEN ret ELSE state

---------------------------------------------------------------------------
(* bot.py: SubscriptionTelegramBot, one action per handler *)

dbVars    == <<users, subscriptions>>
authVars  == <<client_obj, in_clients, session_file, auth_state>>
dataVars  == <<demo_mode, export_format>>
ghostVars == <<picked_format, picked_plan, last_purchase, last_job, last_op>>

otherVars == <<rp, pp, last_call, race>>

\* last_job when the step just taken ran no parse job
NoJob == [mode |-> None, admin |-> FALSE, access |-> FALSE,
          picked |-> None, format |-> None, collected |-> 0, updates |-> << >>,
          raised |-> None, written |-> FALSE, sent |-> FALSE, status_text |-> None]

\* last_purchase when the step just taken bought nothing
NoPurchase == [picked |-> None, sub_id |-> 0]

\* last_op when the step just taken was none of those
NoOp == [kind |-> None, input |-> << >>, outcome |-> None]

\* a step that presses no plan button, buys nothing and runs no job
QuietBut ==
    /\ picked_plan' = None
    /\ last_purchase' = NoPurchase
    /\ last_job' = NoJob
    /\ parsing_sessions' = << >>
    /\ picked_format' = IF conv' = "PARSE_CHANNEL" THEN picked_format ELSE None

Quiet ==
    /\ QuietBut
    /\ last_op' = NoOp

\* the authorization check left out
Authorized_always == TRUE

\* is_authorized = await session_manager.is_authorized(user.id)
Authorized == is_authorized(client_obj, in_clients, session_file)

\* get_admin_main_menu_keyboard(), get_main_menu_keyboard(): their callback data
get_admin_main_menu_keyboard ==
    {<<b>> : b \in {"start_parsing", "my_subscription", "stats", "manage_sessions", "help"}}
        \cup {<<"admin_", "panel">>}

get_main_menu_keyboard ==
    {<<b>> : b \in {"start_parsing", "my_subscription", "stats", "manage_session",
                    "help", "logout"}}

\* the callback data of the keyboard start_command replies with
start_command_keyboard(admin, authorized, has_access) ==
    IF admin /\ authorized THEN get_admin_main_menu_keyboard
    ELSE IF authorized /\ has_access THEN get_main_menu_keyboard
    ELSE IF authorized
    THEN {<<"buy_subscription">>, <<"start_parsing">>, <<"help">>}
    ELSE {<<"start_auth">>, <<"buy_subscription">>, <<"help">>}

\* /start (entry point of the conversation, allow_reentry)
start_command ==
    LET route == Route(conv, "cmd", <<"start">>)
        db1   == get_or_create_user(users, subscriptions, now, Me)
        admin == is_admin(db1[1], Me)
        chk   == check_subscription(db1[1], db1[2], now, Me)
    IN  /\ route[1] = "start_command"
        /\ Len(db1[2]) <= MaxSubs
        /\ users' = db1[1]
        /\ subscriptions' = db1[2]
        /\ conv' = NextConv(conv, route,
                        IF admin /\ Authorized THEN "MAIN_MENU"
                        ELSE IF Authorized /\ chk[1].has_access THEN "MAIN_MENU"
                        ELSE "START")
        /\ UNCHANGED <<now, authVars, dataVars, otherVars>>
        /\ Quiet

\* /buy: a handler of MAIN_MENU and a handler of the application
buy_command ==
    LET route == Route(conv, "cmd", <<"buy">>)
    IN  /\ route[1] = "buy_command"
        /\ conv' = NextConv(conv, route, "CHOOSE_PLAN")
        /\ UNCHANGED <<now, dbVars, authVars, dataVars, otherVars>>
        /\ Quiet

\* /cancel: the fallback of the conversation
cancel_command ==
    LET route == Route(conv, "cmd", <<"cancel">>)
    IN  /\ route[1] = "cancel_command"
        /\ conv' = NextConv(conv, route, "MAIN_MENU")
        /\ UNCHANGED <<now, dbVars, authVars, dataVars, otherVars>>
        /\ Quiet

\* /logout: close_client, then remove the session file
logout_command ==
    LET route == Route(conv, "cmd", <<"logout">>)
    IN  /\ route[1] = "logout_command"
        /\ in_clients' = FALSE
        /\ session_file' = None
        /\ conv' = NextConv(conv, route, "START")
        /\ client_obj' = IF auth_state = None THEN None ELSE client_obj
        /\ UNCHANGED <<now, dbVars, auth_state, dataVars, otherVars>>
        /\ Quiet

\* start_auth_callback: session_manager.create_client succeeds (ok) or raises;
\* user_auth_states[user_id] = {'client': client} replaces the user's entry.
\* <<client_obj, in_clients, session_file, auth_state, return value>>
start_auth_callback(ok) ==
    IF ok
    THEN << IF session_file # None THEN session_file ELSE "unauthorized",
            TRUE,
            IF session_file # None THEN session_file ELSE "unauthorized",
            "client", "AUTH_PHONE" >>
    ELSE << client_obj, in_clients, session_file, auth_state, "START" >>

\* text in AUTH_PHONE; sent: the outcome of client.send_code_request
auth_phone_handler ==
    \E text \in Texts, sent \in {"ok", "flood", "error"} :
        LET route  == Route(conv, "text", text)
            \* user_auth_states[user_id]['phone'] = phone, when the user has an entry
            stored == auth_state
        IN  /\ route[1] = "auth_phone_handler"
            /\ IF ~startswith(text, "+")
               THEN /\ conv' = NextConv(conv, route, "AUTH_PHONE")
                    /\ UNCHANGED auth_state
               ELSE IF stored = None            \* KeyError: no entry for the user
               THEN /\ conv' = NextConv(conv, route, "START")
                    /\ UNCHANGED auth_state
               ELSE IF sent = "ok"
               THEN /\ conv' = NextConv(conv, route, "AUTH_CODE")
                    /\ auth_state' = "code_sent"
               ELSE /\ conv' = NextConv(conv, route, "START")
                    /\ auth_state' = stored
            /\ UNCHANGED <<now, dbVars, client_obj, in_clients, session_file,
                           dataVars, otherVars>>
            /\ Quiet

\* every text taken for a code
IsCode_any(text) == TRUE

\* code.isdigit() and len(code) == 5
IsCode(text) == text = <<"12345">>

\* text in AUTH_CODE; signed: the outcome of client.sign_in
auth_code_handler ==
    \E text \in Texts, signed \in {"ok", "password_needed", "error"} :
        LET route == Route(conv, "text", text)
            chk   == check_subscription(users, subscriptions, now, Me)
        IN  /\ route[1] = "auth_code_handler"
            /\ Len(chk[3]) <= MaxSubs
            /\ IF ~IsCode(text)
               THEN /\ conv' = NextConv(conv, route, "AUTH_CODE")
                    /\ UNCHANGED <<users, subscriptions, authVars>>
               ELSE IF auth_state = None
               THEN /\ conv' = NextConv(conv, route, "START")
                    /\ UNCHANGED <<users, subscriptions, authVars>>
               ELSE IF auth_state # "code_sent" \/ signed = "error"  \* KeyError or failed sign_in
               THEN /\ conv' = NextConv(conv, route, "AUTH_CODE")
                    /\ UNCHANGED <<users, subscriptions, authVars>>
               ELSE IF signed = "password_needed"
               THEN /\ conv' = NextConv(conv, route, "AUTH_PASSWORD")
                    /\ UNCHANGED <<users, subscriptions, authVars>>
               ELSE /\ conv' = NextConv(conv, route, "MAIN_MENU")
                    /\ client_obj' = IF in_clients THEN "authorized" ELSE None
                    /\ session_file' = "authorized"
                    /\ auth_state' = None
                    /\ users' = chk[2]
                    /\ subscriptions' = chk[3]
                    /\ UNCHANGED in_clients
            /\ UNCHANGED <<now, dataVars, otherVars>>
            /\ QuietBut
            \* the text, and what sign_in did when the handler called it
            /\ last_op' = [kind |-> "auth_code", input |-> text,
                           outcome |-> IF IsCode(text) /\ auth_state = "code_sent"
                                       THEN signed ELSE None]

\* text in AUTH_PASSWORD; signed: the outcome of client.sign_in(password=...)
auth_password_handler ==
    \E text \in Texts, signed \in {"ok", "error"} :
        LET route == Route(conv, "text", text)
        IN  /\ route[1] = "auth_password_handler"
            /\ IF auth_state = None
               THEN /\ conv' = NextConv(conv, route, "START")
                    /\ UNCHANGED authVars
               ELSE IF signed = "error"
               THEN /\ conv' = NextConv(conv, route, "AUTH_PASSWORD")
                    /\ UNCHANGED authVars
               ELSE /\ conv' = NextConv(conv, route, "MAIN_MENU")
                    /\ client_obj' = IF in_clients THEN "authorized" ELSE None
                    /\ session_file' = "authorized"
                    /\ auth_state' = None
                    /\ UNCHANGED in_clients
            /\ UNCHANGED <<now, dbVars, dataVars, otherVars>>
            /\ QuietBut
            /\ last_op' = [kind |-> "auth_password", input |-> << >>,
                           outcome |-> IF auth_state # None THEN signed ELSE None]

\* context.user_data.get('selected_plan_type', default): no statement of bot.py
\* stores 'selected_plan_type' in user_data
context_get_selected_plan_type(default) == default

\* process_payment(query, user_id, context.user_data): the subscriptions table after it
process_payment(subs, t, data, user_id) ==
    LET plan_type == IF startswith(data, "plan_") THEN data[2]
                     ELSE context_get_selected_plan_type("daily")
        found     == FindPlan(plan_type)
        plan      == IF found = 0 THEN get_subscription_plans[1]
                     ELSE get_subscription_plans[found]
    IN  create_subscription(subs, t, user_id, plan.code, plan.days, plan.price)

\* the branch of callback_handler for 'start_auth':
\*     await self.start_auth_callback(update, context); return AUTH_PHONE
\* created: did session_manager.create_client return a client
callback_handler_start_auth(created) ==
    LET route == Route(conv, "cb", <<"start_auth">>)
        auth  == start_auth_callback(created)
    IN  /\ route[1] = "callback_handler"
        /\ client_obj' = auth[1]
        /\ in_clients' = auth[2]
        /\ session_file' = auth[3]
        /\ auth_state' = auth[4]
        /\ conv' = NextConv(conv, route, "AUTH_PHONE")
        /\ UNCHANGED <<now, dbVars, dataVars, otherVars>>
        /\ Quiet

\* the callback data of the keyboard the branch 'demo_parsing' of callback_handler shows
demo_parsing_keyboard == {<<"format_", "txt">>, <<"format_", "csv">>, <<"main_menu">>}

\* the branch of callback_handler for 'start_parsing': the authorization check, the
\* subscription check for users who are not administrators, then start_parsing_menu
callback_handler_start_parsing ==
    LET route == Route(conv, "cb", <<"start_parsing">>)
        admin == is_admin(users, Me)
        chk   == check_subscription(users, subscriptions, now, Me)
    IN  /\ route[1] = "callback_handler"
        /\ Len(chk[3]) <= MaxSubs
        /\ IF ~Authorized
           THEN /\ conv' = NextConv(conv, route, "START")
                /\ UNCHANGED <<users, subscriptions>>
           ELSE IF admin
           THEN /\ conv' = NextConv(conv, route, "PARSE_CHANNEL")
                /\ UNCHANGED <<users, subscriptions>>
           ELSE /\ conv' = NextConv(conv, route,
                              IF chk[1].has_access THEN "PARSE_CHANNEL" ELSE "START")
                /\ users' = chk[2]
                /\ subscriptions' = chk[3]
        /\ UNCHANGED <<now, authVars, dataVars, otherVars>>
        /\ picked_format' = None          \* start_parsing_menu: a fresh menu
        /\ picked_plan' = None
        /\ last_purchase' = NoPurchase
        /\ last_op' = NoOp
        /\ last_job' = NoJob
        /\ parsing_sessions' = << >>

\* inline buttons routed to callback_handler.  Buttons a branch treats alike are
\* taken together: routes(S) is how the presses of the buttons S are routed here
callback_handler ==
    LET admin == is_admin(users, Me)
        chk   == check_subscription(users, subscriptions, now, Me)
        here(d) == Route(conv, "cb", d)[1] = "callback_handler"
        routes(S) == {Route(conv, "cb", d) : d \in {x \in S \cap CallbackData : here(x)}}
        NoBranch == {d \in CallbackData :
                        /\ ~(Len(d) = 1 /\ d[1] \in PlainButtons \ {"manage_sessions"})
                        /\ ~startswith(d, "plan_")
                        /\ ~startswith(d, "format_")}
    IN  /\ \/ \E route \in routes({<<"main_menu">>}) :
                  /\ conv' = NextConv(conv, route, IF Authorized THEN "MAIN_MENU" ELSE "START")
                  /\ UNCHANGED <<dbVars, authVars, dataVars>>
                  /\ Quiet
           \/ \E created \in BOOLEAN : callback_handler_start_auth(created)
           \/ \E route \in routes({<<"setup_api">>}) :
                  /\ conv' = NextConv(conv, route, "START")
                  /\ UNCHANGED <<dbVars, authVars, dataVars>>
                  /\ Quiet
           \/ \E route \in routes({<<"buy_subscription">>}) :
                  /\ conv' = NextConv(conv, route, "CHOOSE_PLAN")
                  /\ UNCHANGED <<dbVars, authVars, dataVars>>
                  /\ Quiet
           \/ callback_handler_start_parsing
           \/ \E route \in routes({<<"demo_parsing">>}) :
                  /\ demo_mode' = TRUE
                  /\ conv' = NextConv(conv, route, "PARSE_CHANNEL")
                  /\ UNCHANGED <<dbVars, authVars, export_format>>
                  /\ picked_format' = None          \* a fresh menu
                  /\ picked_plan' = None
                  /\ last_purchase' = NoPurchase
                  /\ last_op' = NoOp
                  /\ last_job' = NoJob
                  /\ parsing_sessions' = << >>
           \/ \E d \in {x \in CallbackData : startswith(x, "plan_") /\ here(x)} :
                  /\ conv' = NextConv(conv, Route(conv, "cb", d), "CONFIRM_PAYMENT")
                  \* plan_type = query.data.replace('plan_', ''); confirm_purchase(query, plan_type)
                  /\ picked_plan' = IF FindPlan(d[2]) = 0 THEN None ELSE d[2]
                  /\ last_purchase' = NoPurchase
                  /\ last_op' = NoOp
                  /\ last_job' = NoJob
                  /\ parsing_sessions' = << >>
                  /\ picked_format' = None
                  /\ UNCHANGED <<dbVars, authVars, dataVars>>
           \/ \E d \in {x \in {<<"confirm_purchase">>} : here(x)} :
                  /\ Len(subscriptions) < MaxSubs
                  /\ subscriptions' = process_payment(subscriptions, now, d, Me)
                  /\ conv' = NextConv(conv, Route(conv, "cb", d), "MAIN_MENU")
                  /\ last_purchase' = [picked |-> picked_plan, sub_id |-> Len(subscriptions) + 1]
                  /\ picked_plan' = None
                  /\ last_op' = NoOp
                  /\ last_job' = NoJob
                  /\ parsing_sessions' = << >>
                  /\ picked_format' = None
                  /\ UNCHANGED <<users, authVars, dataVars>>
           \/ \E route \in routes({<<"cancel_purchase">>}) :
                  /\ conv' = NextConv(conv, route, "MAIN_MENU")
                  /\ UNCHANGED <<dbVars, authVars, dataVars>>
                  /\ Quiet
           \/ \E d \in {x \in CallbackData : startswith(x, "format_") /\ here(x)} :
                  \* format_type = query.data.replace('format_', '')
                  /\ export_format' = d[2]
                  /\ conv' = NextConv(conv, Route(conv, "cb", d), "PARSE_CHANNEL")
                  /\ picked_format' = d[2]
                  /\ picked_plan' = None
                  /\ last_purchase' = NoPurchase
                  /\ last_op' = NoOp
                  /\ last_job' = NoJob
                  /\ parsing_sessions' = << >>
                  /\ UNCHANGED <<dbVars, authVars, demo_mode>>
           \/ \E route \in routes({<<"help">>, <<"my_subscription">>, <<"stats">>,
                                   <<"manage_session">>, <<"refresh_stats">>}) :
                  /\ conv' = NextConv(conv, route, "MAIN_MENU")
                  /\ UNCHANGED <<dbVars, authVars, dataVars>>
                  /\ Quiet
           \/ \E route \in routes({<<"logout">>, <<"delete_my_session">>}) :
                  \* logout_command(update, context): the session is closed and its file
                  \* removed, then update.message (None for a button) raises AttributeError
                  /\ in_clients' = FALSE
                  /\ session_file' = None
                  /\ client_obj' = IF auth_state = None THEN None ELSE client_obj
                  /\ conv' = NextConv(conv, route, None)
                  /\ UNCHANGED <<dbVars, auth_state, dataVars>>
                  /\ Quiet
           \/ \E route \in routes(NoBranch) :
                  \* no branch of the if-chain: the handler returns None
                  /\ conv' = NextConv(conv, route, None)
                  /\ UNCHANGED <<dbVars, authVars, dataVars>>
                  /\ Quiet
        /\ UNCHANGED <<now, otherVars>>

---------------------------------------------------------------------------
(* bot.py: the parse job of parse_channel_handler *)

DemoMin == 10           \* random.randint(10, 20)
DemoMax == 20

ApplyUpdates(row, kws) ==
    LET RECURSIVE go(_, _)
        go(r, i) == IF i > Len(kws) THEN r
                    ELSE go(update_parsing_session(r, kws[i]), i + 1)
    IN  go(row, 1)

\* export_to_file, the 'completed' update, open(filename), edit_text, send_document:
\* the part of a job after its data is collected
ExportAndSend(format, n, before) ==
    LET written   == export_to_file(format)
        completed == Append(before, [status |-> "completed", parsed_items |-> n,
                                     result_file_path |-> format])
    IN  [updates |-> completed, collected |-> n, written |-> written,
         sent   |-> written,
         raised |-> IF ~written THEN "FileNotFoundError" ELSE None]

JobRaises(updates, error) ==
    [updates |-> updates, collected |-> 0, written |-> FALSE, sent |-> FALSE,
     raised |-> error]

\* real_parse_channel as one step; has_client: session_manager.get_client(user_id),
\* resolved: did one of the get_entity calls return, n: participants collected
real_parse_channel(has_client, format, resolved, n) ==
    IF ~has_client THEN JobRaises(<< >>, "client not found")
    ELSE IF ~resolved THEN JobRaises(<<[status |-> "processing"]>>, "cannot find channel")
    ELSE IF n = 0
    THEN JobRaises(<<[status |-> "processing"], [total_items |-> n]>>, "no participants")
    ELSE ExportAndSend(format, n,
                       <<[status |-> "processing"], [total_items |-> n],
                         [parsed_items |-> n]>>)

\* demo_parse_channel as one step; total_members = random.randint(10, 20)
demo_parse_channel(format, total_members) ==
    ExportAndSend(format, total_members,
                  <<[status |-> "processing", total_items |-> total_members],
                    [parsed_items |-> total_members]>>)

\* the edit_text calls on the status message after the job returned or raised:
\* the except branch (1771), then the unconditional closing edit (1781-1794)
StatusEdits(raised) ==
    (IF raised = None THEN << >> ELSE <<"Parsing error">>)
        \o <<"Parsing finished! Choose the next action">>

\* the subscription check skipped
AccessDenied_skipped(admin, demo, has_access) == FALSE

\* if not is_admin and not demo_mode: ... if not subscription_status['has_access']: return START
AccessDenied(admin, demo, has_access) == ~admin /\ ~demo /\ ~has_access

\* the callback data of the keyboard parse_channel_handler leaves under its last
\* message: the two refusals (1707-1714, 1726-1733), the menu after a job (1781-1794)
parse_channel_handler_keyboard(authorized, admin, demo, has_access) ==
    IF ~authorized THEN {<<"start_auth">>}
    ELSE IF ~admin /\ ~demo /\ ~has_access
    THEN {<<"buy_subscription">>, <<"demo_parsing">>}
    ELSE IF admin THEN get_admin_main_menu_keyboard
    ELSE get_main_menu_keyboard

\* text in PARSE_CHANNEL
parse_channel_handler ==
    \E route \in {Route(conv, "text", text) : text \in Texts},
       resolved \in BOOLEAN, n \in 0..MaxCollected, total_members \in {DemoMin, DemoMax} :
        LET admin  == is_admin(users, Me)
            chk    == check_subscription(users, subscriptions, now, Me)
            format == IF export_format = "unset" THEN "txt" ELSE export_format
            job    == IF demo_mode THEN demo_parse_channel(format, total_members)
                      ELSE real_parse_channel(in_clients, format, resolved, n)
            \* except Exception: update_parsing_session(status='failed', error_message=str(e))
            kws    == IF job.raised = None THEN job.updates
                      ELSE Append(job.updates,
                                  [status |-> "failed", error_message |-> job.raised])
        IN  /\ route[1] = "parse_channel_handler"
            /\ IF ~Authorized
               THEN /\ conv' = NextConv(conv, route, "START")
                    /\ UNCHANGED <<dbVars, demo_mode>>
                    /\ parsing_sessions' = << >>
                    /\ last_op' = NoOp
                    /\ last_job' = NoJob
               ELSE IF AccessDenied(admin, demo_mode, chk[1].has_access)
               THEN /\ conv' = NextConv(conv, route, "START")
                    /\ Len(chk[3]) <= MaxSubs
                    /\ users' = chk[2]
                    /\ subscriptions' = chk[3]
                    /\ UNCHANGED demo_mode
                    /\ parsing_sessions' = << >>
                    /\ last_op' = NoOp
                    /\ last_job' = NoJob
               ELSE /\ Len(chk[3]) <= MaxSubs
                    /\ users' = IF ~admin /\ ~demo_mode THEN chk[2] ELSE users
                    /\ subscriptions' = IF ~admin /\ ~demo_mode THEN chk[3] ELSE subscriptions
                    /\ parsing_sessions' =
                            [create_parsing_session(<< >>, Me)
                                EXCEPT ![1] = ApplyUpdates(@, kws)]
                    /\ demo_mode' = FALSE          \* del context.user_data['demo_mode']
                    /\ last_op' = NoOp
                    /\ last_job' =
                            [mode |-> IF demo_mode THEN "demo" ELSE "real",
                             admin |-> admin,
                             access |-> chk[1].has_access,
                             picked |-> picked_format,
                             format |-> format,
                             collected |-> job.collected,
                             updates |-> kws,
                             raised |-> job.raised,
                             written |-> job.written,
                             sent |-> job.sent,
                             status_text |-> StatusEdits(job.raised)[Len(StatusEdits(job.raised))]]
                    /\ conv' = NextConv(conv, route, "MAIN_MENU")
            /\ picked_format' = IF conv' = "PARSE_CHANNEL" THEN picked_format ELSE None
            /\ picked_plan' = None
            /\ last_purchase' = NoPurchase
            /\ UNCHANGED <<now, authVars, export_format, otherVars>>

\* the branch of the if-chain of admin_callback_handler that takes query.data;
\* None: no branch, the handler only answers the query and returns MAIN_MENU
admin_branch(d) ==
    IF d \in {<<"admin_", x>> : x \in {"panel", "users", "subscriptions", "stats", "manage"}}
    THEN d[2]
    ELSE IF d = <<"manage_sessions">> THEN "manage_sessions"
    ELSE IF startswith(d, "session_action_") THEN "session_action"
    ELSE IF Len(d) >= 2 /\ d[1] = "admin_" /\ d[2] = "user_" THEN "user"
    ELSE IF Len(d) >= 2 /\ d[1] = "admin_" /\ d[2] = "extend_" THEN "extend"
    ELSE IF d = <<"admin_", "back">> THEN "back"
    ELSE None

\* admin_callback_handler for a press of the button with callback data d
admin_callback_handler_on(d) ==
    LET admin   == is_admin(users, Me)
        route   == Route(conv, "cb", d)
        \* query.data.replace('admin_extend_', '').split('_')
        parts   == IF admin_branch(d) = "extend"
                   THEN SelectSeq(SubSeq(d, 3, Len(d)), LAMBDA tok : tok # "_")
                   ELSE << >>
        extends == admin /\ Len(parts) = 2
    IN  /\ route[1] = "admin_callback_handler"
        /\ IF extends
           THEN \E subs2 \in update_user_subscription(subscriptions, now,
                                                      int(parts[1]), int(parts[2])) :
                    /\ \A i \in DOMAIN subs2 :
                          DateOf(fromisoformat(subs2[i].expires_at)) <= 3650 + MaxExtendDays
                    /\ subscriptions' = subs2
                    /\ last_op' = [NoOp EXCEPT !.kind = "admin"]
           ELSE /\ UNCHANGED subscriptions
                \* the panel, a list or a user's card is shown; "no access rights"
                \* for other users; nothing when the data has no branch
                /\ last_op' = IF admin /\ admin_branch(d) # None
                              THEN [NoOp EXCEPT !.kind = "admin"]
                              ELSE NoOp
        /\ conv' = NextConv(conv, route, "MAIN_MENU")
        /\ UNCHANGED <<now, users, authVars, dataVars, otherVars>>
        /\ QuietBut

\* inline buttons 'admin_...' routed by the application to admin_callback_handler
admin_callback_handler == \E d \in CallbackData : admin_callback_handler_on(d)

\* /admin: a handler of the application only
admin_command ==
    LET route == Route(conv, "cmd", <<"admin">>)
    IN  /\ route[1] = "admin_command"
        /\ conv' = NextConv(conv, route, "MAIN_MENU")
        /\ last_op' = IF is_admin(users, Me)
                      THEN [NoOp EXCEPT !.kind = "admin"]
                      ELSE NoOp
        /\ UNCHANGED <<now, dbVars, authVars, dataVars, otherVars>>
        /\ QuietBut

\* /broadcast: a handler of the application only; args: context.args is not empty.
\* context.user_data['broadcast_message'] is read by no handler
admin_broadcast_command ==
    \E args \in BOOLEAN :
        LET route == Route(conv, "cmd", <<"broadcast">>)
        IN  /\ route[1] = "admin_broadcast_command"
            /\ conv' = NextConv(conv, route, None)
            /\ last_op' = IF is_admin(users, Me) /\ args
                          THEN [NoOp EXCEPT !.kind = "admin"]
                          ELSE NoOp
            /\ UNCHANGED <<now, dbVars, authVars, dataVars, otherVars>>
            /\ QuietBut

---------------------------------------------------------------------------
(* Strings of channel input, as sequences of tokens *)

\* what a user may type for a channel: a handle, links, an invite link
ChannelInputs ==
    { <<"telegram">>,
      <<"t.me/", "telegram">>,
      <<"@", "telegram">>,
      <<"https://", "t.me/", "telegram">>,
      <<"t.me/", "+", "AbCdEf">>,
      <<"https://", "t.me/", "+", "AbCdEf">> }

\* s.replace(tok, ''): every occurrence of the one-token string tok is removed
Remove(s, tok) == SelectSeq(s, LAMBDA x : x # tok)

\* s.replace('https://t.me/', ''): every occurrence of the two tokens is removed
RECURSIVE RemoveHttpsTme(_)
RemoveHttpsTme(s) ==
    IF Len(s) < 2 THEN s
    ELSE IF s[1] = "https://" /\ s[2] = "t.me/" THEN RemoveHttpsTme(SubSeq(s, 3, Len(s)))
    ELSE <<s[1]>> \o RemoveHttpsTme(Tail(s))

\* substring in s, for a substring of one token or of two
Contains(s, sub) ==
    \E i \in 1..(Len(s) - Len(sub) + 1) : SubSeq(s, i, i + Len(sub) - 1) = sub

---------------------------------------------------------------------------
(* bot.py: real_parse_channel, step by step (variable rp) *)

BATCH_SIZE == 200           \* PARSING_SETTINGS['BATCH_SIZE']
MAX_PARTICIPANTS == 500     \* PARSING_SETTINGS['MAX_PARTICIPANTS']
PartialPage == 50           \* size of a page that is not full
MaxFloods == 1              \* rate-limit errors the provider raises in one job
MaxSeconds == 2             \* e.seconds of a FloodWaitError

\* all_participants as the sequence of the pages appended, a page being the users
\* offset+1 .. offset+n of the listing
RECURSIVE Collected(_)
Collected(pages) == IF pages = << >> THEN 0 ELSE pages[1].n + Collected(Tail(pages))

RpIdle ==
    [pc |-> "idle", channel |-> << >>, format |-> "txt", step |-> 0, retry |-> FALSE,
     failed |-> << >>, requests |-> << >>, floods |-> 0, offset |-> 0,
     all_participants |-> << >>, listing |-> << >>, updates |-> << >>,
     written |-> FALSE, error |-> None]

\* channel.startswith('t.me/') -> replace, elif startswith('https://t.me/') -> replace
StripLink(channel) ==
    IF startswith(channel, "t.me/") THEN Remove(channel, "t.me/")
    ELSE IF Len(channel) >= 2 /\ channel[1] = "https://" /\ channel[2] = "t.me/"
    THEN RemoveHttpsTme(channel)
    ELSE channel

\* the client call of resolution strategy 1, 2, 3
ResolveRequest(step, channel) ==
    CASE step = 1 -> [op |-> "get_entity", arg |-> channel]
      [] step = 2 -> [op |-> "get_entity", arg |-> <<"@">> \o channel]
      [] step = 3 -> [op |-> "get_entity", arg |-> channel]

\* the call of real_parse_channel by parse_channel_handler, up to the first
\* get_entity; has_client: session_manager.get_client(user_id) returned a client
rp_call ==
    /\ rp.pc = "idle"
    /\ pp.pc = "idle"
    /\ \E channel \in ChannelInputs, has_client \in BOOLEAN, format \in {"txt", "excel"} :
          rp' = IF has_client
                THEN [RpIdle EXCEPT !.pc = "resolve", !.channel = StripLink(channel),
                                    !.format = format, !.step = 1,
                                    !.updates = <<[status |-> "processing"]>>]
                ELSE [RpIdle EXCEPT !.pc = "raised", !.channel = channel,
                                    !.format = format, !.error = "client not found"]
    /\ UNCHANGED <<botVars, pp, last_call, race>>

\* one client.get_entity call of the entity resolution (bot.py 1823-1847);
\* answer: what the client library does with it
rp_get_entity ==
    /\ rp.pc = "resolve"
    /\ \E answer \in {"entity", "flood", "error"}, seconds \in 1..MaxSeconds :
          LET req == ResolveRequest(rp.step, rp.channel)
              log == Append(rp.requests,
                            [op |-> req.op, arg |-> req.arg, step |-> rp.step,
                             answer |-> answer,
                             seconds |-> IF answer = "flood" THEN seconds ELSE 0,
                             slept |-> IF answer = "flood" /\ ~rp.retry THEN seconds ELSE 0])
          IN  /\ answer = "flood" => rp.floods < MaxFloods
              /\ answer # "flood" => seconds = 1
              /\ rp' =
                  IF answer = "entity"
                  THEN [rp EXCEPT !.pc = "full_channel", !.requests = log]
                  ELSE IF rp.retry
                  \* the call after the sleep stands in an except clause: what it
                  \* raises is caught by no clause of the same try statement
                  THEN [rp EXCEPT !.pc = "raised", !.requests = log,
                                  !.floods = IF answer = "flood" THEN @ + 1 ELSE @,
                                  !.error = IF answer = "flood" THEN "FloodWaitError"
                                            ELSE "library error"]
                  ELSE IF answer = "flood"
                  THEN [rp EXCEPT !.retry = TRUE, !.requests = log, !.floods = @ + 1]
                  ELSE IF rp.step < 3
                  THEN [rp EXCEPT !.step = @ + 1, !.requests = log,
                                  !.failed = Append(@, rp.step)]
                  ELSE [rp EXCEPT !.pc = "raised", !.requests = log,
                                  !.failed = Append(@, 3),
                                  !.error = "cannot find channel"]
    /\ UNCHANGED <<botVars, pp, last_call, race>>

\* client(GetFullChannelRequest(channel=entity)) and the total_items update
rp_full_channel ==
    /\ rp.pc = "full_channel"
    /\ \E answer \in {"full_chat", "error"} :
          rp' = IF answer = "full_chat"
                THEN [rp EXCEPT !.pc = "crawl",
                                !.updates = Append(@, [total_items |-> "participants_count"])]
                ELSE [rp EXCEPT !.pc = "raised", !.error = "library error"]
    /\ UNCHANGED <<botVars, pp, last_call, race>>

\* the offset advanced on a rate-limit error too
NextOffset_advancing(offset, answer, n, limit) ==
    IF answer = "flood" THEN offset + limit ELSE offset + n

\* offset += len(participants.users), the last statement but the delay of an
\* iteration that did not break; 'continue' in the FloodWaitError clause skips it
NextOffset(offset, answer, n, limit) ==
    IF answer = "users" THEN offset + n ELSE offset

\* one iteration of 'while True' (bot.py 1870-1942); answer: a page of n users,
\* a FloodWaitError of e.seconds, or another error whose text names privacy or not
rp_get_participants ==
    /\ rp.pc = "crawl"
    /\ \E answer \in {"users", "flood", "private", "error"},
          n \in {0, PartialPage, BATCH_SIZE}, seconds \in 1..MaxSeconds :
          LET limit == BATCH_SIZE
              page  == [offset |-> rp.offset, n |-> n]
              all   == IF answer = "users" /\ n > 0
                       THEN Append(rp.all_participants, page) ELSE rp.all_participants
              log   == Append(rp.listing,
                              [offset |-> rp.offset, limit |-> limit,
                               participants |-> rp.all_participants,
                               answer |-> answer,
                               seconds |-> IF answer = "flood" THEN seconds ELSE 0,
                               slept |-> IF answer = "flood" THEN seconds ELSE 0])
              breaks == \/ answer = "error"
                        \/ answer = "users" /\ n = 0
                        \/ answer = "users" /\ Collected(all) >= MAX_PARTICIPANTS
                        \/ answer = "users" /\ n < limit
          IN  /\ answer = "flood" => rp.floods < MaxFloods
              /\ answer # "flood" => seconds = 1
              /\ answer # "users" => n = 0
              /\ rp' =
                  IF answer = "private"
                  THEN [rp EXCEPT !.pc = "raised", !.listing = log,
                                  !.error = "channel is private"]
                  ELSE [rp EXCEPT
                          !.pc = IF breaks THEN "export" ELSE "crawl",
                          !.listing = log,
                          !.floods = IF answer = "flood" THEN @ + 1 ELSE @,
                          !.all_participants = all,
                          !.updates = IF answer = "users" /\ n > 0
                                      THEN Append(@, [parsed_items |-> Collected(all)])
                                      ELSE @,
                          !.offset = IF breaks THEN @
                                     ELSE NextOffset(@, answer, n, limit)]
    /\ UNCHANGED <<botVars, pp, last_call, race>>

\* after the loop: the check for an empty list, export_to_file, the 'completed'
\* update, open(filename) and the sending of the file
rp_export ==
    /\ rp.pc = "export"
    /\ LET n   == Collected(rp.all_participants)
           out == ExportAndSend(rp.format, n, rp.updates)
       IN  rp' = IF n = 0
                 THEN [rp EXCEPT !.pc = "raised", !.error = "no participants"]
                 ELSE [rp EXCEPT !.pc = IF out.raised = None THEN "returned" ELSE "raised",
                                 !.updates = out.updates,
                                 !.written = out.written,
                                 !.error = out.raised]
    /\ UNCHANGED <<botVars, pp, last_call, race>>

---------------------------------------------------------------------------
(* services/telegram_client.py, utils/helpers.py, services/parser.py:
   parse_channel_input and parse_with_methods, step by step (variable pp) *)

MaxUid == 3             \* user ids the provider answers with: 1..MaxUid
MaxUsers == 3           \* users one of the history strategies yields at most
BatchSize == 2          \* Config.PARSING_BATCH_SIZE, scaled
MaxRequests == 2        \* Config.MAX_REQUESTS_PER_CHANNEL, scaled
PrivateLimit == 2       \* Config.PRIVATE_CHANNEL_LIMIT, scaled
PublicLimit == 3        \* Config.MAX_PARTICIPANTS, scaled

Methods == <<"participants", "messages", "comments", "reactions">>

\* the k users the provider lists after the first `from' ones; ids repeat
Ids(from, k) == [i \in 1..k |-> ((from + i - 1) % MaxUid) + 1]

\* re.match(r'^[a-zA-Z0-9_+@\./\-]+$', channel): ':' is not in the class
validate_channel_input(channel) ==
    /\ channel # << >>
    /\ \A i \in DOMAIN channel : channel[i] # "https://"

extract_channel_username(channel_input) ==
    LET at(s) == {i \in DOMAIN s : s[i] = "t.me/"}
        last(s) == CHOOSE i \in at(s) : \A j \in at(s) : j <= i
        \* channel_input.split('t.me/')[-1]
        s1 == IF Contains(channel_input, <<"t.me/">>)
              THEN SubSeq(channel_input, last(channel_input) + 1, Len(channel_input))
              ELSE channel_input
        s2 == IF startswith(s1, "@") THEN Tail(s1) ELSE s1
        q  == {i \in DOMAIN s2 : s2[i] = "?"}
        \* channel_input.split('?')[0]
    IN  IF q = {} THEN s2
        ELSE SubSeq(s2, 1, (CHOOSE i \in q : \A j \in q : i <= j) - 1)

\* every user appended, seen before or not
Merge_all(all, batch) == all \o batch

\* for user_data in ...: if user_data['id'] not in unique_user_ids: add, append
RECURSIVE Merge(_, _)
Merge(all, batch) ==
    IF batch = << >> THEN all
    ELSE Merge(IF \E i \in DOMAIN all : all[i] = batch[1] THEN all
               ELSE Append(all, batch[1]),
               Tail(batch))

\* the provider returned a user a second time
Dropped(all, batch) ==
    \/ \E i \in DOMAIN all, j \in DOMAIN batch : all[i] = batch[j]
    \/ \E i, j \in DOMAIN batch : i # j /\ batch[i] = batch[j]

PpIdle ==
    [pc |-> "idle", cached |-> FALSE, input |-> << >>, channel |-> << >>,
     is_private |-> FALSE, methods |-> {}, limit |-> 0, k |-> 0,
     requests |-> << >>, all_participants |-> << >>,
     participants |-> << >>, offset |-> 0, request_count |-> 0, floods |-> 0,
     listing |-> << >>,
     errors |-> << >>, ran |-> {}, dups |-> FALSE,
     result |-> << >>, error |-> None]

\* a strategy stops running once one before it met an error
RunsStrategy_until_error(p, m) ==
    /\ m \in p.methods
    /\ (m = "participants" \/ Len(p.all_participants) < p.limit)
    /\ p.errors = << >>

\* if '<m>' in methods [and len(all_participants) < limit]
RunsStrategy(p, m) ==
    /\ m \in p.methods
    /\ (m = "participants" \/ Len(p.all_participants) < p.limit)

\* parse_channel_input up to the call of parse_with_methods
pp_parse_channel_input ==
    /\ pp.pc = "idle"
    /\ rp.pc = "idle"
    /\ \E text \in ChannelInputs, api_data \in BOOLEAN, over_daily_limit \in BOOLEAN,
          channel_type \in {"public", "private"}, selected_methods \in SUBSET Range(Methods) :
          LET is_private == channel_type \in {"private", "both"}
              p == [pp EXCEPT !.input = text]
          IN  pp' =
                IF ~validate_channel_input(text)
                THEN [p EXCEPT !.pc = "rejected", !.error = "invalid channel"]
                ELSE IF ~api_data
                THEN [p EXCEPT !.pc = "rejected", !.error = "no api keys"]
                ELSE IF over_daily_limit
                THEN [p EXCEPT !.pc = "rejected", !.error = "daily limit"]
                ELSE [p EXCEPT !.pc = "get_client",
                               !.channel = extract_channel_username(text),
                               !.is_private = is_private,
                               !.methods = selected_methods,
                               !.limit = IF is_private THEN PrivateLimit ELSE PublicLimit]
    /\ UNCHANGED <<botVars, rp, last_call, race>>

\* get_client(user_id, api_data): the client kept in self.clients is returned;
\* without one, os.makedirs is reached and the name os is not defined in parser.py
pp_get_client ==
    /\ pp.pc = "get_client"
    /\ pp' = IF pp.cached THEN [pp EXCEPT !.pc = "cache"]
             ELSE [pp EXCEPT !.pc = "raised", !.error = "NameError"]
    /\ UNCHANGED <<botVars, rp, last_call, race>>

\* what cache.set stored for the same channel, methods and limit
CachedResults(limit) ==
    {Ids(0, n) : n \in 1..(IF limit < MaxUid THEN limit ELSE MaxUid)}

\* if cache.is_available(): cached = cache.get(cache_key); if cached: return cached
pp_cache ==
    /\ pp.pc = "cache"
    /\ \/ \E cached \in CachedResults(pp.limit) :
              pp' = [pp EXCEPT !.pc = "returned", !.result = cached]
       \/ pp' = [pp EXCEPT !.pc = "resolve"]
    /\ UNCHANGED <<botVars, rp, last_call, race>>

\* the entity of the channel: client.get_entity(channel) or _resolve_private_channel,
\* which on ChannelPrivateError tests 't.me/+' in channel_input and calls
\* client.join_channel('https://t.me/+' + channel_input.split('+')[-1])
pp_resolve ==
    /\ pp.pc = "resolve"
    /\ \E answer \in {"entity", "ChannelPrivateError", "error"},
          join_answer \in {"entity", "error"} :
          LET got   == [op |-> "get_entity", arg |-> pp.channel, answer |-> answer]
              joins == pp.is_private /\ answer = "ChannelPrivateError"
                                     /\ Contains(pp.channel, <<"t.me/", "+">>)
              plus  == CHOOSE i \in DOMAIN pp.channel :
                          pp.channel[i] = "+" /\ \A j \in DOMAIN pp.channel :
                                                    pp.channel[j] = "+" => j <= i
              join  == [op |-> "join_channel",
                        arg |-> <<"https://", "t.me/", "+">>
                                  \o SubSeq(pp.channel, plus + 1, Len(pp.channel)),
                        answer |-> join_answer]
              log   == IF joins THEN <<got, join>> ELSE <<got>>
              last  == log[Len(log)].answer
          IN  /\ ~joins => join_answer = "entity"
              /\ pp' = IF last = "entity"
                       THEN [pp EXCEPT !.pc = "strategy", !.k = 1, !.requests = log]
                       ELSE [pp EXCEPT !.pc = "raised", !.requests = log, !.error = last]
    /\ UNCHANGED <<botVars, rp, last_call, race>>

\* the guard of strategy k and, for the strategies that read a history
\* (_get_users_from_messages, _comments, _reactions), its run: the helper returns
\* the users met before an error of the provider, the error is logged
pp_strategy ==
    /\ pp.pc = "strategy"
    /\ pp.k \in DOMAIN Methods
    /\ LET m == Methods[pp.k]
       IN  IF ~RunsStrategy(pp, m)
           THEN pp' = [pp EXCEPT !.k = @ + 1]
           ELSE IF m = "participants"
           THEN pp' = [pp EXCEPT !.pc = "loop", !.ran = @ \cup {m}]
           ELSE \E from \in 0..(MaxUid - 1), n \in 0..MaxUsers, error \in BOOLEAN :
                   pp' = [pp EXCEPT
                            !.k = @ + 1,
                            !.ran = @ \cup {m},
                            !.all_participants = Merge(@, Ids(from, n)),
                            !.dups = @ \/ Dropped(pp.all_participants, Ids(from, n)),
                            !.errors = IF error
                                       THEN Append(@, [method |-> m,
                                                       before |-> pp.all_participants])
                                       ELSE @]
    /\ UNCHANGED <<botVars, rp, last_call, race>>

\* offset += Config.PARSING_BATCH_SIZE after a page with users; the except
\* clauses leave offset alone
BatchOffset(offset, answer) == IF answer = "users" THEN offset + BatchSize ELSE offset

\* one iteration of the loop of _get_channel_participants (parser.py 235-266)
pp_get_channel_participants ==
    /\ pp.pc = "loop"
    /\ \E answer \in {"users", "flood", "error"}, n \in 0..BatchSize,
          seconds \in 1..MaxSeconds :
          LET log == Append(pp.listing,
                            [offset |-> pp.offset, limit |-> BatchSize,
                             participants |-> pp.participants,
                             answer |-> answer,
                             seconds |-> IF answer = "flood" THEN seconds ELSE 0,
                             slept |-> IF answer = "flood" THEN seconds ELSE 0])
              page   == IF answer = "users" THEN Ids(pp.offset, n) ELSE << >>
              offset == IF answer = "users" /\ n = 0 THEN pp.offset
                        ELSE BatchOffset(pp.offset, answer)
              count  == IF answer = "users" /\ n > 0 THEN pp.request_count + 1
                        ELSE pp.request_count
              breaks == answer = "error" \/ (answer = "users" /\ n = 0)
              \* while offset < limit and request_count < Config.MAX_REQUESTS_PER_CHANNEL
              again  == offset < pp.limit /\ count < MaxRequests
          IN  /\ answer = "flood" => pp.floods < MaxFloods
              /\ answer # "flood" => seconds = 1
              /\ answer # "users" => n = 0
              /\ pp' = [pp EXCEPT
                          !.pc = IF breaks \/ ~again THEN "loop_done" ELSE "loop",
                          !.listing = log,
                          !.floods = IF answer = "flood" THEN @ + 1 ELSE @,
                          !.participants = @ \o page,
                          !.offset = offset,
                          !.request_count = count,
                          !.errors = IF answer = "error"
                                     THEN Append(@, [method |-> "participants",
                                                     before |-> pp.all_participants])
                                     ELSE @]
    /\ UNCHANGED <<botVars, rp, last_call, race>>

\* return participants, and the loop of strategy 1 over them (parser.py 134-139)
pp_participants_returned ==
    /\ pp.pc = "loop_done"
    /\ pp' = [pp EXCEPT !.pc = "strategy", !.k = 2,
                        !.all_participants = Merge(@, pp.participants),
                        !.dups = @ \/ Dropped(pp.all_participants, pp.participants),
                        !.participants = << >>, !.offset = 0, !.request_count = 0,
                        !.listing = << >>]
    /\ UNCHANGED <<botVars, rp, last_call, race>>

\* the list returned as collected
Truncate_none(all, limit) == all

\* all_participants[:limit]
Truncate(all, limit) ==
    SubSeq(all, 1, IF Len(all) < limit THEN Len(all) ELSE limit)

\* the result returned after the last strategy
pp_return ==
    /\ pp.pc = "strategy"
    /\ pp.k = Len(Methods) + 1
    /\ pp' = [pp EXCEPT !.pc = "returned",
                        !.result = Truncate(pp.all_participants, pp.limit)]
    /\ UNCHANGED <<botVars, rp, last_call, race>>

---------------------------------------------------------------------------
(* database.py call by call (variable last_call): each call runs to its end *)
(* before the next one starts                                               *)

MaxDbSubs == 3          \* rows in subscriptions
MaxDbNow == 1           \* the clock stops here
MaxDbExtendDays == 1    \* days update_user_subscription may add to the table in all

Other == 2              \* a second user id
UserIds == {Me, Other}

\* last_call before the first call
NoCall == [op |-> None]

\* the record of a call made at `now' on the tables as they are
Call(op, user_id, days, raised) ==
    [op |-> op, user_id |-> user_id, days |-> days,
     existed |-> get_user(users, user_id) # {}, raised |-> raised,
     t |-> now, users |-> users, subscriptions |-> subscriptions]

\* get_or_create_user(user_id, username, first_name, last_name); first_name is
\* None by default and users.first_name is NOT NULL: the INSERT of a new user
\* without a first name raises, the call rolls back and raises again
db_get_or_create_user ==
    \E user_id \in UserIds, named \in BOOLEAN :
        LET db1 == get_or_create_user(users, subscriptions, now, user_id)
            raises == ~named /\ get_user(users, user_id) = {}
        IN  /\ Len(db1[2]) <= MaxDbSubs
            /\ users' = IF raises THEN users ELSE db1[1]
            /\ subscriptions' = IF raises THEN subscriptions ELSE db1[2]
            /\ last_call' = Call("get_or_create_user", user_id, 0, raises)

db_create_user ==
    \E user_id \in UserIds :
        LET db1 == create_user(users, subscriptions, now, user_id)
        IN  /\ Len(db1[2]) <= MaxDbSubs
            /\ users' = db1[1]
            /\ subscriptions' = db1[2]
            /\ last_call' = Call("create_user", user_id, 0, FALSE)

db_check_subscription ==
    \E user_id \in UserIds :
        LET chk == check_subscription(users, subscriptions, now, user_id)
        IN  /\ Len(chk[3]) <= MaxDbSubs
            /\ users' = chk[2]
            /\ subscriptions' = chk[3]
            /\ last_call' = Call("check_subscription", user_id, 0, FALSE)

\* Database.connect() of a later run of the process, ADMIN_IDS naming the user or not
db_ensure_admin_exists ==
    \E admin_ids \in SUBSET {Me} :
        LET db1 == ensure_admin_exists(users, subscriptions, admin_ids, now)
        IN  /\ Len(db1[2]) <= MaxDbSubs
            /\ users' = db1[1]
            /\ subscriptions' = db1[2]
            /\ last_call' = Call("_ensure_admin_exists", Me, 0, FALSE)

\* create_subscription(user_id, plan_type, days, price); PRAGMA foreign_keys = ON
\* makes the INSERT raise for a user_id that is in no users row
db_create_subscription ==
    \E user_id \in UserIds, i \in {2, 3} :
        LET plan == get_subscription_plans[i]
            known == get_user(users, user_id) # {}
        IN  /\ Len(subscriptions) < MaxDbSubs
            /\ users' = users
            /\ subscriptions' =
                  IF known
                  THEN create_subscription(subscriptions, now, user_id,
                                           plan.code, plan.days, plan.price)
                  ELSE subscriptions
            /\ last_call' = Call("create_subscription", user_id, plan.days, ~known)

\* the days update_user_subscription has added to a row so far: its length beyond
\* the days it was created for ('admin' rows are created by an extension)
DaysExtended(row) ==
    DaysBetween(fromisoformat(row.expires_at), fromisoformat(row.starts_at))
        - (CASE row.plan_type = "lifetime" -> 3650
             [] row.plan_type = "admin" -> 0
             [] OTHER -> get_subscription_plans[FindPlan(row.plan_type)].days)

\* the days update_user_subscription has added to the rows of a table
TotalExtended(subs) ==
    LET RECURSIVE sum(_)
        sum(i) == IF i = 0 THEN 0
                  ELSE sum(i - 1) + DaysExtended(subs[i])
    IN  sum(Len(subs))

\* update_user_subscription(user_id, days_to_add), as extend_subscription calls it;
\* without a row of status 'active' it calls create_subscription, whose INSERT
\* raises for a user_id that is in no users row
db_update_user_subscription ==
    \E user_id \in UserIds, days \in 1..MaxDbExtendDays :
        \E subs2 \in update_user_subscription(subscriptions, now, user_id, days) :
            LET raises == Len(subs2) > Len(subscriptions) /\ get_user(users, user_id) = {}
            IN  /\ Len(subs2) <= MaxDbSubs
                /\ TotalExtended(subs2) <= MaxDbExtendDays
                /\ users' = users
                /\ subscriptions' = IF raises THEN subscriptions ELSE subs2
                /\ last_call' = Call("update_user_subscription", user_id, days, raises)

db_tick ==
    /\ now < MaxDbNow
    /\ now' = now + 1
    /\ UNCHANGED <<users, subscriptions, last_call>>

---------------------------------------------------------------------------
(* database.py, get_or_create_user called by two coroutines (variable race). *)
(* Database has one aiosqlite connection: there is one open transaction,    *)
(* every coroutine sees its uncommitted rows, commit() makes all of them    *)
(* durable and rollback() discards all of them.  A coroutine may be         *)
(* suspended at every await; self._lock is created and never acquired.      *)

Coroutines == {1, 2}

\* the tables of a database in which get_or_create_user made the users of `existing'
TablesOf(existing) ==
    [users |-> existing,
     trials |-> [u \in UserIds |-> IF u \in existing THEN 1 ELSE 0],
     stats |-> existing]

\* both tasks are created, each with its user_id
race_start ==
    /\ race.pc = "idle"
    /\ \E existing \in SUBSET UserIds, u1 \in UserIds, u2 \in UserIds :
          race' = [pc |-> "run", view |-> TablesOf(existing),
                   committed |-> TablesOf(existing), started_with |-> existing,
                   co |-> << [pc |-> "get_user", user_id |-> u1],
                             [pc |-> "get_user", user_id |-> u2] >>]

\* coroutine c goes to pc with the connection's tables as given
RaceStep(c, pc, view) == [race EXCEPT !.co[c].pc = pc, !.view = view]

\* user = await self.get_user(user_id); if user: ...
race_get_user(c) ==
    /\ race.pc = "run"
    /\ race.co[c].pc = "get_user"
    /\ race' = RaceStep(c, IF race.co[c].user_id \in race.view.users
                           THEN "update" ELSE "insert_user", race.view)

\* UPDATE users SET last_activity = CURRENT_TIMESTAMP WHERE user_id = ?
race_update(c) ==
    /\ race.pc = "run"
    /\ race.co[c].pc = "update"
    /\ race' = RaceStep(c, "commit", race.view)

\* INSERT INTO users: user_id is the PRIMARY KEY
race_insert_user(c) ==
    /\ race.pc = "run"
    /\ race.co[c].pc = "insert_user"
    /\ LET u == race.co[c].user_id
       IN  race' = IF u \in race.view.users
                   THEN RaceStep(c, "rollback", race.view)
                   ELSE RaceStep(c, "insert_subscription",
                                 [race.view EXCEPT !.users = @ \cup {u}])

\* INSERT INTO subscriptions ... 'trial': FOREIGN KEY (user_id) REFERENCES users
race_insert_subscription(c) ==
    /\ race.pc = "run"
    /\ race.co[c].pc = "insert_subscription"
    /\ LET u == race.co[c].user_id
       IN  race' = IF u \notin race.view.users
                   THEN RaceStep(c, "rollback", race.view)
                   ELSE RaceStep(c, "insert_usage_stats",
                                 [race.view EXCEPT !.trials[u] = @ + 1])

\* INSERT INTO usage_stats (user_id, CURRENT_DATE, ...): FOREIGN KEY and UNIQUE(user_id, date)
race_insert_usage_stats(c) ==
    /\ race.pc = "run"
    /\ race.co[c].pc = "insert_usage_stats"
    /\ LET u == race.co[c].user_id
       IN  race' = IF u \notin race.view.users \/ u \in race.view.stats
                   THEN RaceStep(c, "rollback", race.view)
                   ELSE RaceStep(c, "commit",
                                 [race.view EXCEPT !.stats = @ \cup {u}])

\* await self.conn.commit(), then return dict(user) or return await self.get_user(user_id)
race_commit(c) ==
    /\ race.pc = "run"
    /\ race.co[c].pc = "commit"
    /\ race' = [RaceStep(c, "returned", race.view) EXCEPT !.committed = race.view]

\* except Exception: await self.conn.rollback(); raise
race_rollback(c) ==
    /\ race.pc = "run"
    /\ race.co[c].pc = "rollback"
    /\ race' = RaceStep(c, "raised", race.committed)

---------------------------------------------------------------------------
(* The environment of the bot *)

Updates == {<<"cmd", <<c>>>> : c \in Commands}
           \cup {<<"text", t>> : t \in Texts}
           \cup {<<"cb", d>> : d \in CallbackData}

\* an update no registered handler matches is dropped
unhandled_update ==
    LET dropped == {u \in Updates : Route(conv, u[1], u[2])[1] = None}
        \* a format button of the parsing menu that is on screen
        pressed(u) == IF u[1] = "cb" /\ startswith(u[2], "format_") /\ conv = "PARSE_CHANNEL"
                      THEN u[2][2] ELSE picked_format
    IN  /\ \E f \in {pressed(u) : u \in dropped} : picked_format' = f
        /\ last_purchase' = NoPurchase
        /\ last_op' = NoOp
        /\ last_job' = NoJob
        /\ parsing_sessions' = << >>
        /\ UNCHANGED <<now, dbVars, conv, authVars, dataVars, picked_plan, otherVars>>

\* time passes
Tick ==
    /\ now < MaxNow
    /\ now' = now + 1
    /\ last_purchase' = NoPurchase
    /\ last_op' = NoOp
    /\ last_job' = NoJob
    /\ parsing_sessions' = << >>
    /\ UNCHANGED <<dbVars, conv, authVars, dataVars, picked_format, picked_plan, otherVars>>

\* the process is restarted: the database and the session files stay, the
\* conversation states, user_data, session_manager.clients and user_auth_states go
Restart ==
    /\ conv # None
    /\ conv' = None
    /\ demo_mode' = FALSE
    /\ export_format' = "unset"
    /\ client_obj' = None
    /\ in_clients' = FALSE
    /\ auth_state' = None
    /\ UNCHANGED <<now, dbVars, session_file, otherVars>>
    /\ Quiet

\* The database file outlives the process.  The file Database.connect() opens is
\* new, or was left by an earlier run in which the chat user registered three days ago
EarlierRuns ==
    { << {}, << >> >>, get_or_create_user({}, << >>, 0 - timedelta(3), Me) }

\* SubscriptionTelegramBot and SessionManager as constructed; no conversation yet
InitHandlers ==
    /\ parsing_sessions = << >>
    /\ conv = None
    /\ demo_mode = FALSE
    /\ export_format = "unset"
    /\ client_obj = None
    /\ in_clients = FALSE
    /\ session_file = None
    /\ auth_state = None
    /\ picked_format = None
    /\ picked_plan = None
    /\ last_purchase = NoPurchase
    /\ last_job = NoJob
    /\ last_op = NoOp

\* after Database.connect(), with ADMIN_IDS naming the chat user or not
InitBot ==
    /\ now = 0
    /\ \E file \in EarlierRuns, admin_ids \in SUBSET {Me} :
          /\ users = ensure_admin_exists(file[1], file[2], admin_ids, 0)[1]
          /\ subscriptions = ensure_admin_exists(file[1], file[2], admin_ids, 0)[2]
    /\ InitHandlers

Init ==
    /\ InitBot
    /\ rp = Idle
    /\ pp = Idle
    /\ last_call = NoCall
    /\ race = Idle

Next ==
    \/ start_command
    \/ buy_command
    \/ cancel_command
    \/ logout_command
    \/ auth_phone_handler
    \/ auth_code_handler
    \/ auth_password_handler
    \/ callback_handler
    \/ admin_callback_handler
    \/ admin_command
    \/ admin_broadcast_command
    \/ parse_channel_handler
    \/ unhandled_update
    \/ Tick
    \/ Restart

Spec == Init /\ [][Next]_vars

\* One parse job followed call by call: real_parse_channel of bot.py, or
\* parse_channel_input of the TelegramBot flow.  EnhancedTelegramParser.clients is
\* written by get_client only, after the os.makedirs call that raises NameError;
\* the job is followed for both contents of clients, so that what parse_with_methods
\* does after get_client is covered as well
InitJob ==
    /\ InitBot
    /\ rp = RpIdle
    /\ \E cached \in BOOLEAN : pp = [PpIdle EXCEPT !.cached = cached]
    /\ last_call = NoCall
    /\ race = Idle

NextJob ==
    \/ rp_call
    \/ rp_get_entity
    \/ rp_full_channel
    \/ rp_get_participants
    \/ rp_export
    \/ pp_parse_channel_input
    \/ pp_get_client
    \/ pp_cache
    \/ pp_resolve
    \/ pp_strategy
    \/ pp_get_channel_participants
    \/ pp_participants_returned
    \/ pp_return

SpecJob == InitJob /\ [][NextJob]_vars

\* The database file is new, or was left by an earlier run in which the second
\* user registered a week ago
EarlierDbRuns ==
    { << {}, << >> >>, get_or_create_user({}, << >>, 0 - timedelta(7), Other) }

\* the database file before connect() has run
InitDb ==
    /\ now = 0
    /\ \E db \in EarlierDbRuns : users = db[1] /\ subscriptions = db[2]
    /\ InitHandlers
    /\ rp = Idle
    /\ pp = Idle
    /\ last_call = NoCall
    /\ race = Idle

dbFrame == <<parsing_sessions, conv, demo_mode, export_format, client_obj, in_clients,
             session_file, auth_state, picked_format, picked_plan, last_purchase,
             last_job, last_op, rp, pp, race>>

NextDb ==
    \/ db_get_or_create_user /\ UNCHANGED <<now, dbFrame>>
    \/ db_create_user /\ UNCHANGED <<now, dbFrame>>
    \/ db_check_subscription /\ UNCHANGED <<now, dbFrame>>
    \/ db_ensure_admin_exists /\ UNCHANGED <<now, dbFrame>>
    \/ db_create_subscription /\ UNCHANGED <<now, dbFrame>>
    \/ db_update_user_subscription /\ UNCHANGED <<now, dbFrame>>
    \/ db_tick /\ UNCHANGED dbFrame

SpecDb == InitDb /\ [][NextDb]_vars

raceFrame == <<botVars, rp, pp, last_call>>

\* a fresh database file and no task yet
InitRace ==
    /\ now = 0
    /\ users = {}
    /\ subscriptions = << >>
    /\ InitHandlers
    /\ rp = Idle
    /\ pp = Idle
    /\ last_call = NoCall
    /\ race = Idle

NextRace ==
    \/ race_start /\ UNCHANGED raceFrame
    \/ \E c \in Coroutines : race_get_user(c) /\ UNCHANGED raceFrame
    \/ \E c \in Coroutines : race_update(c) /\ UNCHANGED raceFrame
    \/ \E c \in Coroutines : race_insert_user(c) /\ UNCHANGED raceFrame
    \/ \E c \in Coroutines : race_insert_subscription(c) /\ UNCHANGED raceFrame
    \/ \E c \in Coroutines : race_insert_usage_stats(c) /\ UNCHANGED raceFrame
    \/ \E c \in Coroutines : race_commit(c) /\ UNCHANGED raceFrame
    \/ \E c \in Coroutines : race_rollback(c) /\ UNCHANGED raceFrame

SpecRace == InitRace /\ [][NextRace]_vars

---------------------------------------------------------------------------
(* Claims about the bot *)

\* C2: real_parse_channel is started by parse_channel_handler only for a user who
\* is an administrator or for whom check_subscription reports has_access = true
C2_RealParseNeedsAccess ==
    last_job.mode = "real" => (last_job.admin \/ last_job.access)

C2_Witness_SubscriberParsed ==
    last_job.mode = "real" /\ ~last_job.admin /\ last_job.access

\* C3: after a plan button plan_<P> and then 'confirm_purchase', the subscription
\* row process_payment creates has the plan_type, days and price of plan P
C3_PurchaseIsOfChosenPlan ==
    last_purchase.picked # None =>
        LET row  == subscriptions[last_purchase.sub_id]
            plan == get_subscription_plans[FindPlan(last_purchase.picked)]
        IN  /\ row.plan_type = plan.code
            /\ fromisoformat(row.expires_at) = fromisoformat(row.starts_at) + timedelta(plan.days)
            /\ row.price = plan.price

\* C4: after an export format is chosen from the parsing menu and a channel is
\* submitted, a parse that collects at least one participant ends with the
\* result file of the chosen format written and sent, the session 'completed'
C4_ChosenFormatDelivered ==
    (last_job.mode # None /\ last_job.picked # None /\ last_job.collected >= 1) =>
        /\ last_job.format = last_job.picked
        /\ last_job.written
        /\ last_job.sent
        /\ parsing_sessions[1].status = "completed"

\* C8: when the parse job raises, the session is set to 'failed' with the error
\* message and the final content of the status message reports the error
C8_FailureIsReported ==
    (last_job.mode # None /\ last_job.raised # None) =>
        /\ parsing_sessions[1].status = "failed"
        /\ parsing_sessions[1].error_message = last_job.raised
        /\ last_job.status_text = "Parsing error"

\* C10: get_user_subscription never returns a subscription that expired before the
\* current time (the claim also excludes one that expires at the current time)
C10_NoExpiredSubscriptionReturned ==
    \A row \in get_user_subscription(subscriptions, now, Me) :
        ~(fromisoformat(row.expires_at) < now)

---------------------------------------------------------------------------
(* Claims about one parse job *)

IsPrefix(a, b) == Len(a) <= Len(b) /\ SubSeq(b, 1, Len(a)) = a

MethodIndex(m) == CHOOSE k \in DOMAIN Methods : Methods[k] = m

\* C1: the 'participants' list parse_with_methods returns holds no two entries
\* with the same user id, whatever strategies are selected and whatever users the
\* provider returns, repeated within a strategy or across strategies
C1_NoDuplicateIds ==
    pp.pc = "returned" =>
        \A i, j \in DOMAIN pp.result : i # j => pp.result[i] # pp.result[j]

C1_Witness_RepeatedUsersMerged ==
    /\ pp.pc = "returned"
    /\ pp.dups
    /\ Cardinality(pp.ran) >= 2
    /\ Len(pp.result) >= 2

\* a member-listing log in which every request answered by FloodWaitError was
\* followed by a sleep of e.seconds and then by a request (made, or about to be
\* made by the running loop) with the same offset and the same collected participants
FloodRetried(log, offset, participants, looping) ==
    \A i \in DOMAIN log :
        log[i].answer = "flood" =>
            /\ log[i].seconds >= 1
            /\ log[i].slept = log[i].seconds
            /\ IF i < Len(log)
               THEN /\ log[i + 1].offset = log[i].offset
                    /\ log[i + 1].participants = log[i].participants
               ELSE /\ looping
                    /\ offset = log[i].offset
                    /\ participants = log[i].participants

\* C5: a member-listing request that fails with FloodWaitError, in
\* _get_channel_participants or in the crawl loop of real_parse_channel, is followed
\* by a wait of e.seconds and by the request for the same offset again; the offset
\* and the participants collected so far are unchanged by the failed request
C5_FloodWaitRetriesSameOffset ==
    /\ FloodRetried(rp.listing, rp.offset, rp.all_participants, rp.pc = "crawl")
    /\ FloodRetried(pp.listing, pp.offset, pp.participants, pp.pc = "loop")

\* a later page failed with FloodWaitError and was asked for again, with users returned
RetriedLaterPage(log) ==
    \E i \in DOMAIN log :
        /\ i < Len(log)
        /\ log[i].answer = "flood"
        /\ log[i].offset > 0
        /\ log[i].participants # << >>
        /\ log[i + 1].answer = "users"

C5_Witness_FloodOnLaterPage ==
    RetriedLaterPage(rp.listing) \/ RetriedLaterPage(pp.listing)

\* C6: entity resolution in real_parse_channel tries (1) the handle as given,
\* (2) the handle prefixed with '@', (3) joining through the invite link, each only
\* after the one before failed with an error that is no rate limit, and fails
\* with 'cannot find channel' only when all three have failed
C6_ThreeResolutionStrategies ==
    /\ \A i \in DOMAIN rp.requests :
          LET r == rp.requests[i]
          IN  /\ r.step = 1 => r.op = "get_entity" /\ r.arg = rp.channel
              /\ r.step = 2 => r.op = "get_entity" /\ r.arg = <<"@">> \o rp.channel
              /\ r.step = 3 => r.op = "join"
              /\ r.step > 1 => \E j \in 1..(i - 1) :
                                  /\ rp.requests[j].step = r.step - 1
                                  /\ rp.requests[j].answer = "error"
    /\ rp.error = "cannot find channel" => rp.failed = <<1, 2, 3>>

C17_ResultWithinLimit ==
    pp.pc = "returned" =>
        /\ Len(pp.result) <= pp.limit
        /\ pp.is_private => Len(pp.result) <= PrivateLimit

\* the strategies of a private-channel parse collected more users than the limit
C17_Witness_CutToPrivateLimit ==
    /\ pp.pc = "returned"
    /\ pp.is_private
    /\ Len(pp.all_participants) > pp.limit
    /\ Len(pp.result) = PrivateLimit

\* C18: real_parse_channel never holds more than
\* PARSING_SETTINGS['MAX_PARTICIPANTS'] participants in all_participants, the
\* list it exports.
C18_NeverMoreThanMaxParticipants ==
    Collected(rp.all_participants) <= MAX_PARTICIPANTS

\* C20: both member-listing loops end whatever the provider answers.  The code
\* of an iteration is a function of the loop's variables and of the answer, so
\* termination for every sequence of answers needs every iteration that stays
\* in the loop to change one of them: offset or all_participants in
\* real_parse_channel; offset, participants or request_count in
\* _get_channel_participants.
C20_EveryIterationAdvances ==
    [][/\ (rp.pc = "crawl" /\ rp'.pc = "crawl" /\ rp' # rp) =>
             <<rp'.offset, rp'.all_participants>> # <<rp.offset, rp.all_participants>>
       /\ (pp.pc = "loop" /\ pp'.pc = "loop" /\ pp' # pp) =>
             <<pp'.offset, pp'.participants, pp'.request_count>>
                # <<pp.offset, pp.participants, pp.request_count>>]_vars

---------------------------------------------------------------------------
(* Claims about administrators, logout and the sign-in dialogue (Spec) *)

\* the users row of the chat user has is_admin set
CallerIsAdministrator == \E u \in users : u.user_id = Me /\ u.is_admin

\* a row that was in subscriptions is not the same after the step
RowChanged ==
    \E i \in DOMAIN subscriptions :
        i \in DOMAIN subscriptions' /\ subscriptions'[i] # subscriptions[i]

C15_LogoutEndsInStart ==
    [][(session_file # None /\ session_file' = None) =>
          /\ ~in_clients'
          /\ ~is_authorized(client_obj', in_clients', session_file')
          /\ conv' = "START"]_vars

\* C16: a parse job, real or demo, runs and a parsing session is created only
\* at a moment when session_manager.is_authorized is true for the user.
C16_JobOnlyWhenAuthorized ==
    (last_job.mode # None \/ parsing_sessions # << >>) =>
        is_authorized(client_obj, in_clients, session_file)

\* a demo job ran, for an authorized user
C16_Witness_DemoJobRan ==
    /\ last_job.mode = "demo"
    /\ parsing_sessions # << >>
    /\ is_authorized(client_obj, in_clients, session_file)

\* C19: after a text in AUTH_CODE the conversation is in AUTH_PASSWORD only when
\* sign_in raised SessionPasswordNeededError, the pending entry of
\* user_auth_states kept, and in MAIN_MENU only when sign_in succeeded, the
\* entry removed; after a text that is not a 5-digit code or a sign_in that
\* failed it is in AUTH_CODE; after a text in AUTH_PASSWORD it is in MAIN_MENU
\* only when the password sign_in succeeded.
C19_SignInOrder ==
    /\ last_op.kind = "auth_code" =>
          /\ conv = "AUTH_PASSWORD" =>
                last_op.outcome = "password_needed" /\ auth_state = "code_sent"
          /\ conv = "MAIN_MENU" => last_op.outcome = "ok" /\ auth_state = None
          /\ (last_op.input # <<"12345">> \/ last_op.outcome = "error") =>
                conv = "AUTH_CODE"
    /\ last_op.kind = "auth_password" =>
          (conv = "MAIN_MENU" => last_op.outcome = "ok" /\ auth_state = None)

\* the password of a 2FA account accepted
C19_Witness_PasswordAccepted ==
    /\ last_op.kind = "auth_password"
    /\ last_op.outcome = "ok"
    /\ conv = "MAIN_MENU"
    /\ session_file = "authorized"

---------------------------------------------------------------------------
(* Claims about database.py call by call (SpecDb) *)

\* the last row of subscriptions
NewRow == subscriptions[Len(subscriptions)]

\* subscriptions is the table before the call with one row added at its end
OneRowAdded ==
    /\ Len(subscriptions) = Len(last_call.subscriptions) + 1
    /\ SubSeq(subscriptions, 1, Len(last_call.subscriptions)) = last_call.subscriptions

\* C11: a create_subscription call that returns has added exactly one row, of
\* status 'active' and for the user named, whose expires_at is its starts_at plus
\* the number of days asked for, and has changed no other row; the trial row
\* that get_or_create_user adds for a new user expires exactly 3 days after the
\* time of the call.
C11_SubscriptionRunsForDaysAsked ==
    /\ (last_call.op = "create_subscription" /\ ~last_call.raised) =>
          /\ OneRowAdded
          /\ users = last_call.users
          /\ NewRow.status = "active"
          /\ NewRow.user_id = last_call.user_id
          /\ fromisoformat(NewRow.starts_at) = last_call.t
          /\ fromisoformat(NewRow.expires_at) =
                fromisoformat(NewRow.starts_at) + timedelta(last_call.days)
    /\ (last_call.op = "get_or_create_user" /\ ~last_call.existed /\ ~last_call.raised) =>
          /\ OneRowAdded
          /\ NewRow.plan_type = "trial"
          /\ NewRow.user_id = last_call.user_id
          /\ fromisoformat(NewRow.expires_at) = last_call.t + timedelta(3)

\* a subscription bought in the middle of a day by a user who holds a trial
C11_Witness_BoughtAfterTrial ==
    /\ last_call.op = "create_subscription"
    /\ ~last_call.raised
    /\ TimeOf(last_call.t) # 0
    /\ \E i \in DOMAIN last_call.subscriptions :
          /\ last_call.subscriptions[i].plan_type = "trial"
          /\ last_call.subscriptions[i].user_id = last_call.user_id
    /\ Len(subscriptions) = Len(last_call.subscriptions) + 1

\* the subscriptions a user row is created with: 'trial' by get_or_create_user,
\* 'lifetime' by _ensure_admin_exists
InitialSubscriptions(user_id) ==
    {i \in DOMAIN subscriptions :
        /\ subscriptions[i].user_id = user_id
        /\ subscriptions[i].plan_type \in {"trial", "lifetime"}}

\* C12: after any sequence of get_or_create_user, create_user,
\* check_subscription and _ensure_admin_exists calls made one after the other
\* there is at most one users row for a user_id, every users row has exactly
\* one initial subscription, which is 'trial' for a user who is not an
\* administrator, no subscription belongs to a user without a row, and
\* get_or_create_user for a user who has a row adds no row at all.
C12_OneRowOneInitialSubscription ==
    /\ \A user_id \in UserIds : Cardinality(get_user(users, user_id)) <= 1
    /\ \A u \in users :
          /\ Cardinality(InitialSubscriptions(u.user_id)) = 1
          /\ ~u.is_admin =>
                \A i \in InitialSubscriptions(u.user_id) :
                    subscriptions[i].plan_type = "trial"
    /\ \A i \in DOMAIN subscriptions : get_user(users, subscriptions[i].user_id) # {}
    /\ (last_call.op = "get_or_create_user" /\ last_call.existed) =>
          /\ users = last_call.users
          /\ subscriptions = last_call.subscriptions

\* get_or_create_user called again for an ordinary user, beside an administrator
C12_Witness_CalledAgain ==
    /\ last_call.op = "get_or_create_user"
    /\ last_call.existed
    /\ ~is_admin(users, last_call.user_id)
    /\ is_admin(users, Me)
    /\ Cardinality(users) = 2

---------------------------------------------------------------------------
(* Claims about two get_or_create_user calls at once (SpecRace) *)

\* both calls have ended, and they were made for one user_id that had no row
BothEndedForNewUser ==
    /\ race.pc = "run"
    /\ \A c \in Coroutines : race.co[c].pc \in {"returned", "raised"}
    /\ race.co[1].user_id = race.co[2].user_id
    /\ race.co[1].user_id \notin race.started_with

\* C13: when two get_or_create_user calls for the same new user_id have run
\* interleaved on the connection, neither has raised and the database holds
\* exactly one users row, one 'trial' subscription and one usage_stats row
\* for that user_id.
C13_ConcurrentCreationIsAtomic ==
    BothEndedForNewUser =>
        LET u == race.co[1].user_id
        IN  /\ \A c \in Coroutines : race.co[c].pc = "returned"
            /\ u \in race.committed.users
            /\ race.committed.trials[u] = 1
            /\ u \in race.committed.stats

----------------------------------------------------------------------------
(* More claims about one parse job (SpecJob) *)

----------------------------------------------------------------------------
(* More claims about the bot (Spec) *)

\* the values written to column f of the session of the last job, in order,
\* after the value create_parsing_session gave it
Written(f) ==
    LET kws == SelectSeq(last_job.updates, LAMBDA kw : f \in DOMAIN kw)
    IN  <<SessionRow(Me)[f]>> \o [i \in DOMAIN kws |-> kws[i][f]]

StatusRank(s) == CASE s = "pending" -> 0
                   [] s = "processing" -> 1
                   [] s \in {"completed", "failed"} -> 2

\* C22: the status of the session of a job only moves forward along
\* pending -> processing -> (completed | failed), 'completed' and 'failed' being
\* final, and parsed_items never decreases during the job.
C22_SessionOnlyMovesForward ==
    last_job.mode # None =>
        /\ \A i \in 1..(Len(Written("status")) - 1) :
              StatusRank(Written("status")[i]) < StatusRank(Written("status")[i + 1])
        /\ \A i \in 1..(Len(Written("parsed_items")) - 1) :
              Written("parsed_items")[i] <= Written("parsed_items")[i + 1]
        /\ (parsing_sessions[1].completed_at => parsing_sessions[1].status = "completed")

\* C23: whenever session_manager.is_authorized(user) returns true,
\* session_manager.get_client(user) returns a client, also after a restart that
\* empties the client table while the session file stays; so a job that passed the
\* authorization check never fails with 'client not found'.
C23_AuthorizedHasClient ==
    /\ is_authorized(client_obj, in_clients, session_file) => in_clients
    /\ last_job.mode # None => last_job.raised # "client not found"

\* C24: when creating the Telethon client fails after a press of 'start_auth',
\* the conversation is in START afterwards and user_auth_states got no entry for
\* the user.
C24_FailedStartAuthReturnsToStart ==
    [][callback_handler_start_auth(FALSE) =>
           /\ conv' = "START"
           /\ auth_state' = auth_state]_vars

\* C25: after the /buy command, issued in any conversation state or with no
\* conversation started, the conversation is in CHOOSE_PLAN, so that the next
\* press of a plan button is handled by callback_handler.
C25_BuyLeadsToChoosePlan ==
    [][buy_command =>
          /\ conv' = "CHOOSE_PLAN"
          /\ \A d \in CallbackData :
                startswith(d, "plan_") => Route(conv', "cb", d)[1] = "callback_handler"]_vars

\* the callback data of the administrator's buttons: admin_panel, admin_users,
\* admin_subscriptions, admin_stats, admin_manage, admin_user_<id>,
\* admin_extend_<id>_<days>, manage_sessions, session_action_<id>_<action>
AdminButtons ==
    {d \in CallbackData :
        \/ d \in {<<"admin_", x>> : x \in {"panel", "users", "subscriptions",
                                           "stats", "manage"}}
        \/ (Len(d) >= 2 /\ d[1] = "admin_" /\ d[2] \in {"user_", "extend_"})
        \/ d = <<"manage_sessions">>
        \/ startswith(d, "session_action_")}

\* C26: when an administrator whose conversation is in MAIN_MENU presses an
\* admin button, the update is dispatched to admin_callback_handler.
C26_AdminButtonsReachAdminHandler ==
    (conv = "MAIN_MENU" /\ CallerIsAdministrator) =>
        \A d \in AdminButtons : Route(conv, "cb", d)[1] = "admin_callback_handler"

\* a press of d in conversation state s is taken by some handler
Handled(s, d) == Route(s, "cb", d)[1] # None

\* C27: no dead buttons.  Every callback button of a keyboard a handler shows is
\* matched by a handler of the conversation state the handler returns, or by a
\* handler of the application: the keyboards of start_command, of the branch
\* 'demo_parsing' of callback_handler (the step that sets demo_mode) and of
\* parse_channel_handler.
C27_NoDeadButtons ==
    [][/\ start_command =>
             \A d \in start_command_keyboard(
                          is_admin(users', Me),
                          is_authorized(client_obj', in_clients', session_file'),
                          check_subscription(users', subscriptions', now', Me)[1].has_access) :
                 Handled(conv', d)
       /\ (~demo_mode /\ demo_mode') =>
             \A d \in demo_parsing_keyboard : Handled(conv', d)
       /\ parse_channel_handler =>
             \A d \in parse_channel_handler_keyboard(
                          Authorized, is_admin(users, Me), demo_mode,
                          check_subscription(users, subscriptions, now, Me)[1].has_access) :
                 Handled(conv', d)]_vars

\* C28: demo_mode affects only the parse that directly follows a press of
\* 'demo_parsing'.  parse_channel_handler runs the demo generator exactly when
\* demo_mode is set, so a press of 'start_parsing' that opens the parsing state
\* for a user with access leaves the flag clear, whatever the user did before.
C28_StartParsingMeansRealParse ==
    [][(callback_handler_start_parsing /\ conv' = "PARSE_CHANNEL") => ~demo_mode']_vars

----------------------------------------------------------------------------
(* More claims about database.py call by call (SpecDb) *)

\* the rows of status 'active' extend_subscription found for the user before the call
ActiveBefore ==
    {i \in DOMAIN last_call.subscriptions :
        /\ last_call.subscriptions[i].user_id = last_call.user_id
        /\ last_call.subscriptions[i].status = "active"}

\* C29: after update_user_subscription(target, N) with N >= 1 has returned,
\* get_user_subscription(target) returns a row, whose expires_at is the latest
\* expiry the user had plus N days, or the time of the call plus N days when the
\* user had no row of status 'active'; also when the latest row had expired.
C29_ExtendedUserHasSubscription ==
    (last_call.op = "update_user_subscription" /\ ~last_call.raised) =>
        LET got == get_user_subscription(subscriptions, last_call.t, last_call.user_id)
        IN  /\ got # {}
            /\ \A row \in got :
                  IF ActiveBefore = {}
                  THEN fromisoformat(row.expires_at) =
                          last_call.t + timedelta(last_call.days)
                  ELSE \A i \in ActiveBefore :
                          fromisoformat(row.expires_at) >=
                             fromisoformat(last_call.subscriptions[i].expires_at)
                                + timedelta(last_call.days)

\* the confirmation button of /broadcast: 'admin_confirm_broadcast_<id>'
ConfirmBroadcast ==
    {d \in CallbackData : Len(d) >= 2 /\ d[1] = "admin_" /\ d[2] = "confirm_broadcast_"}

\* C30: when an administrator issues /broadcast <message> and then presses the
\* confirmation button, the stored message is sent to all users.  The step before
\* the press is an administrator's operation (admin_broadcast_command records one
\* when it asks for the confirmation), and the message can only be sent by the
\* handler the press is dispatched to, in a branch that takes that callback data.
C30_ConfirmedBroadcastIsSent ==
    [][\A d \in ConfirmBroadcast :
          (/\ CallerIsAdministrator
           /\ last_op.kind = "admin"
           /\ admin_callback_handler_on(d)) =>
              admin_branch(d) # None]_vars

=============================================================================
